---- MODULE Spec2Model ----
(***************************************************************************)
(* Runtime protobuf values of serde-protobuf (src/value.rs): the Value /   *)
(* Field / Message data model, the decode engine (merge_from) and the      *)
(* encode engine (compute_size, write_to).                                 *)
(*                                                                         *)
(* Bytes are numbers 0..255, a stream is the sequence of bytes that remain *)
(* inside the current limit.  Integers are modelled in the range           *)
(* -2^28 .. 2^28-1; a reader that meets an encoding outside that range     *)
(* answers "Unmodelled", and no input of the specifications produces one.  *)
(***************************************************************************)
EXTENDS Integers, Sequences, FiniteSets, TLC

VARIABLES
    msg,      \* the target Message
    op,       \* the operation that produced this state
    entries,  \* the tag/value pairs of the last merged payload
    before,   \* the target as it was when the last merge_from was called
    result,   \* outcome of the last merge_from: [res, n]
    sizes,    \* values returned by compute_size since the last mutation
    out,      \* the chunks emitted by the last write_to
    copy      \* a fresh Message after merge_from of the written bytes: [res, msg]

vars == <<msg, op, entries, before, result, sizes, out, copy>>

-----------------------------------------------------------------------------
(* Sequences of bytes *)

RECURSIVE Flatten(_)
Flatten(ss) == IF ss = <<>> THEN <<>> ELSE Head(ss) \o Flatten(Tail(ss))

Drop(bs, n) == SubSeq(bs, n + 1, Len(bs))

Take(bs, n) == SubSeq(bs, 1, n)

RECURSIVE SumSeq(_)
SumSeq(ns) == IF ns = <<>> THEN 0 ELSE Head(ns) + SumSeq(Tail(ns))

\* The elements of a finite set of integers in ascending order (BTreeMap order).
RECURSIVE Ascending(_)
Ascending(S) ==
    IF S = {} THEN <<>>
    ELSE LET lo == CHOOSE x \in S : \A y \in S : x <= y
         IN  <<lo>> \o Ascending(S \ {lo})

-----------------------------------------------------------------------------
(* Wire format: the protobuf crate's primitives *)

\* protobuf::stream::wire_format::WireType as the number packed into a tag
WireNumber(wt) ==
    CASE wt = "WireTypeVarint" -> 0
      [] wt = "WireTypeFixed64" -> 1
      [] wt = "WireTypeLengthDelimited" -> 2
      [] wt = "WireTypeStartGroup" -> 3
      [] wt = "WireTypeEndGroup" -> 4
      [] wt = "WireTypeFixed32" -> 5

WireTypes == {"WireTypeVarint", "WireTypeFixed64", "WireTypeLengthDelimited",
              "WireTypeStartGroup", "WireTypeEndGroup", "WireTypeFixed32"}

\* write_raw_varint32 / write_raw_varint64 of a non-negative number
RECURSIVE VarintU(_)
VarintU(n) ==
    IF n < 128 THEN <<n>> ELSE <<(n % 128) + 128>> \o VarintU(n \div 128)

\* the ten bytes of a negative number sign-extended to 64 bits
RECURSIVE SignExtended(_, _)
SignExtended(n, k) ==
    IF k = 9 THEN <<1>>
    ELSE <<(n % 128) + 128>> \o SignExtended(n \div 128, k + 1)

\* write_raw_varint64(x as u64) of a signed number
Varint64(n) == IF n >= 0 THEN VarintU(n) ELSE SignExtended(n, 0)

\* ProtobufVarint::len_varint
len_varint(n) == Len(Varint64(n))

\* CodedOutputStream::write_tag
Tag(number, wt) == VarintU(number * 8 + WireNumber(wt))

\* protobuf::rt::tag_size
tag_size(number) == Len(Tag(number, "WireTypeFixed64"))

\* protobuf::rt::value_size(number, x, WireTypeVarint)
value_size(number, x) == tag_size(number) + len_varint(x)

\* protobuf::rt::bytes_size and string_size
bytes_size(number, bs) == tag_size(number) + len_varint(Len(bs)) + Len(bs)

\* protobuf::rt::unknown_fields_size
unknown_fields_size(unknown) == Len(unknown)

\* Little-endian bytes of a non-negative number below 2^28, k bytes wide
RECURSIVE LittleEndian(_, _)
LittleEndian(n, k) ==
    IF k = 0 THEN <<>> ELSE <<n % 256>> \o LittleEndian(n \div 256, k - 1)

-----------------------------------------------------------------------------
(* Value, Field, Message *)

Val(k, n, b, m) == [k |-> k, n |-> n, b |-> b, m |-> m]

Bool(x)     == Val("Bool", IF x THEN 1 ELSE 0, <<>>, <<>>)
I32(x)      == Val("I32", x, <<>>, <<>>)
I64(x)      == Val("I64", x, <<>>, <<>>)
U32(x)      == Val("U32", x, <<>>, <<>>)
U64(x)      == Val("U64", x, <<>>, <<>>)
F32(bits)   == Val("F32", 0, bits, <<>>)
F64(bits)   == Val("F64", 0, bits, <<>>)
Bytes(bs)   == Val("Bytes", 0, bs, <<>>)
String(bs)  == Val("String", 0, bs, <<>>)
Enum(x)     == Val("Enum", x, <<>>, <<>>)
Message(m)  == Val("Message", 0, <<>>, <<m>>)

Singular(o) == [rep |-> FALSE, vals |-> o]
Repeated(v) == [rep |-> TRUE, vals |-> v]

\* A float or double compares equal to 0 when its bits are +0.0 or -0.0.
FloatIsZero(bits) ==
    \A i \in 1..Len(bits) : bits[i] = 0 \/ (i = Len(bits) /\ bits[i] = 128)

-----------------------------------------------------------------------------
(* Descriptors: the schema the specifications run under *)

FD(type, repeated, ref) ==
    [type |-> type, repeated |-> repeated, ref |-> ref, default |-> <<>>]

Top ==
    (1 :> FD("Int32", FALSE, "")) @@
    (2 :> FD("String", TRUE, "")) @@
    (3 :> FD("Message", FALSE, "Child")) @@
    (4 :> FD("Message", TRUE, "Child")) @@
    (5 :> FD("Bool", TRUE, "")) @@
    (6 :> FD("Bytes", TRUE, "")) @@
    (7 :> FD("Float", FALSE, "")) @@
    (8 :> FD("Group", FALSE, "")) @@
    (9 :> FD("UnresolvedEnum", FALSE, "E")) @@
    (10 :> FD("UnresolvedMessage", FALSE, "M"))

Child ==
    (1 :> FD("Int32", FALSE, "")) @@
    (2 :> FD("Int32", TRUE, ""))

Packed ==
    (1 :> FD("Bool", TRUE, "")) @@
    (2 :> FD("Int32", TRUE, "")) @@
    (3 :> FD("Int64", TRUE, "")) @@
    (4 :> FD("SInt32", TRUE, "")) @@
    (5 :> FD("SInt64", TRUE, "")) @@
    (6 :> FD("UInt32", TRUE, "")) @@
    (7 :> FD("UInt64", TRUE, "")) @@
    (8 :> FD("Fixed32", TRUE, "")) @@
    (9 :> FD("Fixed64", TRUE, "")) @@
    (10 :> FD("SFixed32", TRUE, "")) @@
    (11 :> FD("SFixed64", TRUE, "")) @@
    (12 :> FD("Float", TRUE, "")) @@
    (13 :> FD("Double", TRUE, ""))

Descriptors(name) ==
    CASE name = "Top" -> Top
      [] name = "Child" -> Child
      [] name = "Packed" -> Packed

-----------------------------------------------------------------------------
(* Construction *)

Field_new(field) == IF field.repeated THEN Repeated(<<>>) ELSE Singular(<<>>)

Message_new(message) ==
    [fields |-> [number \in DOMAIN Descriptors(message) |->
                    LET field == Descriptors(message)[number]
                    IN  IF field.repeated THEN Repeated(<<>>)
                        ELSE Singular(field.default)],
     unknown |-> <<>>,
     size |-> 0]

ensure_field(m, number, field) ==
    IF number \in DOMAIN m.fields THEN m
    ELSE [m EXCEPT !.fields = (number :> Field_new(field)) @@ m.fields]

put(f, value) ==
    IF f.rep THEN [f EXCEPT !.vals = Append(f.vals, value)]
    ELSE [f EXCEPT !.vals = <<value>>]

-----------------------------------------------------------------------------
(* Encode engine *)

RECURSIVE compute_size(_), size_with_tag(_, _)

size_with_tag(f, tag) ==
    IF f.rep
    THEN SumSeq([i \in 1..Len(f.vals) |-> size_with_tag(Singular(<<f.vals[i]>>), tag)])
    ELSE IF f.vals = <<>> THEN 0
    ELSE LET v == f.vals[1] IN
         CASE v.k = "Bool" -> IF v.n = 1 THEN 2 ELSE 0
           [] v.k \in {"I32", "I64", "U32", "U64", "Enum"} ->
                IF v.n = 0 THEN 0 ELSE value_size(tag, v.n)
           [] v.k = "F32" -> 5
           [] v.k = "F64" -> 9
           [] v.k \in {"Bytes", "String"} -> bytes_size(tag, v.b)
           [] v.k = "Message" -> compute_size(v.m[1])

compute_size(m) ==
    SumSeq([i \in 1..Cardinality(DOMAIN m.fields) |->
              LET tag == Ascending(DOMAIN m.fields)[i]
              IN  size_with_tag(m.fields[tag], tag)])
    + unknown_fields_size(m.unknown)

\* The Message after compute_size: self.size is set, and so is the size of every
\* Message held by a singular field; a repeated field's elements are sized on a
\* clone, so their own cached size stays as it was.
RECURSIVE set_size(_)
set_size(m) ==
    [fields |-> [tag \in DOMAIN m.fields |->
                    LET f == m.fields[tag] IN
                    IF ~f.rep /\ f.vals # <<>> /\ f.vals[1].k = "Message"
                    THEN Singular(<<Message(set_size(f.vals[1].m[1]))>>)
                    ELSE f],
     unknown |-> m.unknown,
     size |-> compute_size(m)]

RECURSIVE write_to(_), write_to_with_tag(_, _, _)

write_to_with_tag(f, tag, repeated_elem) ==
    IF f.rep
    THEN Flatten([i \in 1..Len(f.vals) |->
                    write_to_with_tag(Singular(<<f.vals[i]>>), tag, TRUE)])
    ELSE IF f.vals = <<>> THEN <<>>
    ELSE LET v == f.vals[1] IN
         CASE v.k = "Bool" ->
                IF v.n = 1 \/ repeated_elem
                THEN Tag(tag, "WireTypeVarint") \o <<1>> ELSE <<>>
           [] v.k \in {"I32", "I64", "Enum"} ->
                IF v.n # 0 \/ repeated_elem
                THEN Tag(tag, "WireTypeVarint") \o Varint64(v.n) ELSE <<>>
           [] v.k \in {"U32", "U64"} ->
                IF v.n # 0 \/ repeated_elem
                THEN Tag(tag, "WireTypeVarint") \o VarintU(v.n) ELSE <<>>
           [] v.k = "F32" ->
                IF ~FloatIsZero(v.b) \/ repeated_elem
                THEN Tag(tag, "WireTypeFixed32") \o v.b ELSE <<>>
           [] v.k = "F64" ->
                IF ~FloatIsZero(v.b) \/ repeated_elem
                THEN Tag(tag, "WireTypeFixed64") \o v.b ELSE <<>>
           [] v.k = "Bytes" ->
                IF v.b # <<>>
                THEN Tag(tag, "WireTypeLengthDelimited") \o VarintU(Len(v.b)) \o v.b
                ELSE <<>>
           [] v.k = "String" ->
                IF v.b # <<>> \/ repeated_elem
                THEN Tag(tag, "WireTypeLengthDelimited") \o VarintU(Len(v.b)) \o v.b
                ELSE <<>>
           [] v.k = "Message" ->
                Tag(tag, "WireTypeLengthDelimited") \o VarintU(v.m[1].size)
                    \o write_to(v.m[1])

\* write_to with the unknown fields written ahead of the known fields
Emitted_unknown_first(m) ==
    <<[number |-> 0, bytes |-> set_size(m).unknown]>>
    \o [i \in 1..Len(Ascending(DOMAIN m.fields)) |->
           [number |-> Ascending(DOMAIN m.fields)[i],
            bytes |-> write_to_with_tag(set_size(m).fields[Ascending(DOMAIN m.fields)[i]],
                                        Ascending(DOMAIN m.fields)[i], FALSE)]]

\* What write_to hands to the stream, one chunk per known field in the order of
\* emission and then the unknown fields (number 0).
Emitted(m) ==
    LET sized == set_size(m)
        tags == Ascending(DOMAIN sized.fields)
    IN  [i \in 1..Len(tags) |->
            [number |-> tags[i],
             bytes |-> write_to_with_tag(sized.fields[tags[i]], tags[i], FALSE)]]
        \o <<[number |-> 0, bytes |-> sized.unknown]>>

write_to(m) == Flatten([i \in 1..Len(Emitted(m)) |-> Emitted(m)[i].bytes])

write_to_bytes(m) == write_to(m)

-----------------------------------------------------------------------------------------------------------------------------------------------------
(* Wire format: the protobuf crate's CodedInputStream.  A read answers
   [st, n, b, rest]: the outcome, the number or the bytes read, and the bytes
   that remain. *)

Failed(st) == [st |-> st, n |-> 0, b |-> <<>>, rest |-> <<>>]

Read(n, b, rest) == [st |-> "Ok", n |-> n, b |-> b, rest |-> rest]

\* The index of the last byte of the varint at the head of bs, 0 when there is none
\* (the stream ends inside it, or it is longer than ten bytes).
RECURSIVE VarintEnd(_, _)
VarintEnd(bs, i) ==
    IF i > Len(bs) \/ i > 10 THEN 0
    ELSE IF bs[i] < 128 THEN i
    ELSE VarintEnd(bs, i + 1)

\* The number held by the 7-bit groups of the first k bytes.
RECURSIVE LowGroups(_, _)
LowGroups(bs, k) ==
    IF k = 0 THEN 0 ELSE (bs[1] % 128) + 128 * LowGroups(Tail(bs), k - 1)

\* The varint of bs that ends at byte e, as a signed 64-bit number.
varint_ending(bs, e) ==
    IF e = 0 THEN Failed("WireError")
    ELSE IF e <= 4 THEN Read(LowGroups(bs, e), <<>>, Drop(bs, e))
    ELSE IF e = 10 /\ bs[10] = 1 /\ \A i \in 5..9 : bs[i] = 255
    THEN Read(LowGroups(bs, 4) - 268435456, <<>>, Drop(bs, e))
    ELSE Failed("Unmodelled")

read_raw_varint64(bs) == varint_ending(bs, VarintEnd(bs, 1))

\* A cast to an unsigned type: a negative number becomes one above 2^31.
Unsigned(r) == IF r.st = "Ok" /\ r.n < 0 THEN Failed("Unmodelled") ELSE r

decode_zig_zag(n) == IF n % 2 = 0 THEN n \div 2 ELSE -((n + 1) \div 2)

\* k raw bytes
read_raw_bytes(bs, k) ==
    IF Len(bs) < k THEN Failed("WireError") ELSE Read(0, Take(bs, k), Drop(bs, k))

RECURSIVE FromLittleEndian(_)
FromLittleEndian(b) ==
    IF b = <<>> THEN 0 ELSE b[1] + 256 * FromLittleEndian(Tail(b))

\* The number in the k little-endian bytes r.b, two's complement when signed.
fixed_number(r, k, signed) ==
    IF r.st # "Ok" THEN r
    ELSE IF r.b[4] < 128 /\ \A i \in 5..k : r.b[i] = 0
    THEN Read(FromLittleEndian(Take(r.b, 4)), <<>>, r.rest)
    ELSE IF signed /\ r.b[4] >= 128 /\ \A i \in 5..k : r.b[i] = 255
    THEN Read(FromLittleEndian(Take(r.b, 3)) + (r.b[4] - 256) * 16777216, <<>>, r.rest)
    ELSE Failed("Unmodelled")

read_fixed(bs, k, signed) == fixed_number(read_raw_bytes(bs, k), k, signed)

bytes_of_length(len) ==
    IF len.st # "Ok" THEN len ELSE read_raw_bytes(len.rest, len.n)

read_bytes(bs) == bytes_of_length(Unsigned(read_raw_varint64(bs)))

\* read_string accepts valid UTF-8 only; the model knows ASCII.
utf8(r) ==
    IF r.st = "Ok" /\ \E i \in 1..Len(r.b) : r.b[i] >= 128
    THEN Failed("Unmodelled") ELSE r

read_string(bs) == utf8(read_bytes(bs))

VarintReaders == {"read_bool", "read_int32", "read_int64", "read_uint32",
                  "read_uint64", "read_sint32", "read_sint64"}

\* The readers of a varint, v the varint read
varint_as(reader, v) ==
    IF v.st # "Ok" THEN v
    ELSE CASE reader = "read_bool" -> Read(IF v.n # 0 THEN 1 ELSE 0, <<>>, v.rest)
           [] reader \in {"read_int32", "read_int64"} -> v
           [] reader \in {"read_uint32", "read_uint64"} -> Unsigned(v)
           [] reader \in {"read_sint32", "read_sint64"} ->
                IF v.n < 0 THEN Failed("Unmodelled")
                ELSE Read(decode_zig_zag(v.n), <<>>, v.rest)

\* CodedInputStream::read_<reader>
reader_read(reader, bs) ==
    IF reader \in VarintReaders THEN varint_as(reader, read_raw_varint64(bs))
    ELSE IF reader \in {"read_fixed32", "read_fixed64", "read_sfixed32", "read_sfixed64"}
    THEN read_fixed(bs, IF reader \in {"read_fixed32", "read_sfixed32"} THEN 4 ELSE 8,
                    reader \in {"read_sfixed32", "read_sfixed64"})
    ELSE IF reader \in {"read_float", "read_double"}
    THEN read_raw_bytes(bs, IF reader = "read_float" THEN 4 ELSE 8)
    ELSE IF reader = "read_bytes" THEN read_bytes(bs)
    ELSE read_string(bs)

NoTag(st) == [st |-> st, number |-> 0, wire_type |-> "", rest |-> <<>>]

unpack(v) ==
    IF v.st # "Ok" THEN NoTag(v.st)
    ELSE IF v.n % 8 > 5 \/ v.n \div 8 = 0 THEN NoTag("WireError")
    ELSE [st |-> "Ok", number |-> v.n \div 8,
          wire_type |-> CHOOSE wt \in WireTypes : WireNumber(wt) = v.n % 8,
          rest |-> v.rest]

\* CodedInputStream::read_tag_unpack: [st, number, wire_type, rest]
read_tag_unpack(bs) == unpack(Unsigned(read_raw_varint64(bs)))

\* CodedInputStream::read_unknown
read_unknown(wire_type, bs) ==
    CASE wire_type = "WireTypeVarint" -> read_raw_varint64(bs)
      [] wire_type = "WireTypeFixed64" -> read_raw_bytes(bs, 8)
      [] wire_type = "WireTypeFixed32" -> read_raw_bytes(bs, 4)
      [] wire_type = "WireTypeLengthDelimited" -> read_bytes(bs)
      [] wire_type = "WireTypeStartGroup" -> Failed("Unmodelled")
      [] wire_type = "WireTypeEndGroup" -> Failed("WireError")

\* UnknownFields::add_value: the pair's encoding goes to the end of the unknown
\* fields, r the value as read from bs.  [st, unknown, rest]
add_value(number, wire_type, bs, unknown, r) ==
    IF r.st # "Ok" THEN [st |-> r.st, unknown |-> unknown, rest |-> <<>>]
    ELSE [st |-> "Ok",
          unknown |-> unknown \o Tag(number, wire_type) \o Take(bs, Len(bs) - Len(r.rest)),
          rest |-> r.rest]

\* protobuf::rt::read_unknown_or_skip_group
read_unknown_or_skip_group(number, wire_type, bs, unknown) ==
    add_value(number, wire_type, bs, unknown, read_unknown(wire_type, bs))

-----------------------------------------------------------------------------
(* Decode engine.  An operation on a field answers [res, f, rest]: the outcome,
   the field as the call leaves it and the bytes that remain; merge_from on a
   Message answers [res, msg, n], n the tag/value pairs it processed. *)

Err(res, f) == [res |-> res, f |-> f, rest |-> <<>>]

\* self.put(value_ctor(reader(input)?)), r what the reader answered
put_read(f, value_ctor, r) ==
    IF r.st # "Ok" THEN Err(r.st, f)
    ELSE [res |-> "Ok", f |-> put(f, Val(value_ctor, r.n, r.b, <<>>)), rest |-> r.rest]

\* merge_scalar without the comparison of the wire types
merge_scalar_unchecked(f, input, actual_wire_type, expected_wire_type, value_ctor, reader) ==
    put_read(f, value_ctor, reader_read(reader, input))

merge_scalar(f, input, actual_wire_type, expected_wire_type, value_ctor, reader) ==
    IF expected_wire_type = actual_wire_type
    THEN put_read(f, value_ctor, reader_read(reader, input))
    ELSE Err("BadWireType", f)

\* The packed run read with an `if` in place of the `while`: one element at most
packed_run_once(p, value_ctor, reader) ==
    IF p.res # "Ok" \/ p.rest = <<>> THEN p
    ELSE put_read(p.f, value_ctor, reader_read(reader, p.rest))

\* while !input.eof()? { self.put(value_ctor(reader(input)?)) }, input the bytes
\* inside the pushed limit and p the outcome of the puts so far
RECURSIVE packed_run(_, _, _)
packed_run(p, value_ctor, reader) ==
    IF p.res # "Ok" \/ p.rest = <<>> THEN p
    ELSE packed_run(put_read(p.f, value_ctor, reader_read(reader, p.rest)),
                    value_ctor, reader)

\* input.push_limit(len)? ... input.pop_limit(old_limit)
pop_limit(r, len) ==
    IF r.res # "Ok" THEN r ELSE [r EXCEPT !.rest = Drop(len.rest, len.n)]

packed(f, len, value_ctor, reader) ==
    IF len.st # "Ok" THEN Err(len.st, f)
    ELSE IF len.n > Len(len.rest) THEN Err("WireError", f)
    ELSE pop_limit(packed_run([res |-> "Ok", f |-> f, rest |-> Take(len.rest, len.n)],
                              value_ctor, reader), len)

merge_packable_scalar(f, input, actual_wire_type, expected_wire_type, value_ctor, reader) ==
    IF actual_wire_type = "WireTypeLengthDelimited"
    THEN packed(f, Unsigned(read_raw_varint64(input)), value_ctor, reader)
    ELSE merge_scalar(f, input, actual_wire_type, expected_wire_type, value_ctor, reader)

merge_enum(f, input, actual_wire_type) ==
    IF actual_wire_type = "WireTypeVarint"
    THEN put_read(f, "Enum", read_raw_varint64(input))
    ELSE Err("BadWireType", f)

RECURSIVE merge_loop(_, _, _, _)

\* self.put(Value::Message(msg)) when msg.merge_from(..)? succeeded; r is what
\* it answered, taken the field after o.take()
put_merged(taken, r, len) ==
    IF r.res # "Ok" THEN Err(r.res, taken)
    ELSE [res |-> "Ok", f |-> put(taken, Message(r.msg)), rest |-> Drop(len.rest, len.n)]

\* merge_message that always starts from a new Message
merge_target_fresh(f, message) == Message_new(message)

\* The Message the payload is merged into: the one a singular field holds, or a new one
merge_target(f, message) ==
    IF ~f.rep /\ f.vals # <<>> /\ f.vals[1].k = "Message" THEN f.vals[1].m[1]
    ELSE Message_new(message)

\* The field after `o.take()`
take(f) == IF f.rep THEN f ELSE Singular(<<>>)

nested(f, len, message) ==
    IF len.st # "Ok" THEN Err(len.st, f)
    ELSE IF len.n > Len(len.rest) THEN Err("WireError", take(f))
    ELSE put_merged(take(f),
                    merge_loop(merge_target(f, message), message, Take(len.rest, len.n), 0),
                    len)

merge_message(f, input, message, actual_wire_type) ==
    IF actual_wire_type = "WireTypeLengthDelimited"
    THEN nested(f, Unsigned(read_raw_varint64(input)), message)
    ELSE Err("BadWireType", f)

PackableTypes == {"Bool", "Int32", "Int64", "SInt32", "SInt64", "UInt32", "UInt64",
                  "Fixed32", "Fixed64", "SFixed32", "SFixed64", "Float", "Double"}

\* The arguments of the ps! and ss! macros for a field type:
\* <<expected wire type, value constructor, reader>>
dispatch(t) ==
    CASE t = "Bool" -> <<"WireTypeVarint", "Bool", "read_bool">>
      [] t = "Int32" -> <<"WireTypeVarint", "I32", "read_int32">>
      [] t = "Int64" -> <<"WireTypeVarint", "I64", "read_int64">>
      [] t = "SInt32" -> <<"WireTypeVarint", "I32", "read_sint32">>
      [] t = "SInt64" -> <<"WireTypeVarint", "I64", "read_sint64">>
      [] t = "UInt32" -> <<"WireTypeVarint", "U32", "read_uint32">>
      [] t = "UInt64" -> <<"WireTypeVarint", "U64", "read_uint64">>
      [] t = "Fixed32" -> <<"WireTypeFixed32", "U32", "read_fixed32">>
      [] t = "Fixed64" -> <<"WireTypeFixed64", "U64", "read_fixed64">>
      [] t = "SFixed32" -> <<"WireTypeFixed32", "I32", "read_sfixed32">>
      [] t = "SFixed64" -> <<"WireTypeFixed64", "I64", "read_sfixed64">>
      [] t = "Float" -> <<"WireTypeFixed32", "F32", "read_float">>
      [] t = "Double" -> <<"WireTypeFixed64", "F64", "read_double">>
      [] t = "Bytes" -> <<"WireTypeLengthDelimited", "Bytes", "read_bytes">>
      [] t = "String" -> <<"WireTypeLengthDelimited", "String", "read_string">>

Field_merge_from(f, field, input, wire_type) ==
    CASE field.type \in PackableTypes ->
            merge_packable_scalar(f, input, wire_type, dispatch(field.type)[1],
                                  dispatch(field.type)[2], dispatch(field.type)[3])
      [] field.type \in {"Bytes", "String"} ->
            merge_scalar(f, input, wire_type, dispatch(field.type)[1],
                         dispatch(field.type)[2], dispatch(field.type)[3])
      [] field.type = "Enum" -> merge_enum(f, input, wire_type)
      [] field.type = "Message" -> merge_message(f, input, field.ref, wire_type)
      [] field.type = "Group" -> Err("Panic", f)
      [] field.type = "UnresolvedEnum" -> Err("UnknownEnum", f)
      [] field.type = "UnresolvedMessage" -> Err("UnknownMessage", f)

\* value.merge_from(descriptors, field, input, wire_type)? on the known field
\* t.number of e, r what it answered
merged_field(e, message, t, r, n) ==
    IF r.res # "Ok"
    THEN [res |-> r.res, msg |-> [e EXCEPT !.fields[t.number] = r.f], n |-> n]
    ELSE merge_loop([e EXCEPT !.fields[t.number] = r.f], message, r.rest, n + 1)

known(e, message, t, n) ==
    merged_field(e, message, t,
                 Field_merge_from(e.fields[t.number], Descriptors(message)[t.number],
                                  t.rest, t.wire_type),
                 n)

\* u(number, wire_type, input, &mut self.unknown)?, u what it answered
merged_unknown(m, message, u, n) ==
    IF u.st # "Ok" THEN [res |-> u.st, msg |-> m, n |-> n]
    ELSE merge_loop([m EXCEPT !.unknown = u.unknown], message, u.rest, n + 1)

\* One turn of the loop, t the tag read
pair(m, message, t, n) ==
    IF t.st # "Ok" THEN [res |-> t.st, msg |-> m, n |-> n]
    ELSE IF t.number \in DOMAIN Descriptors(message)
    THEN known(ensure_field(m, t.number, Descriptors(message)[t.number]), message, t, n)
    ELSE merged_unknown(m, message,
                        read_unknown_or_skip_group(t.number, t.wire_type, t.rest, m.unknown),
                        n)

\* The loop of Message::merge_from, n pairs processed so far
merge_loop(m, message, input, n) ==
    IF input = <<>> THEN [res |-> "Ok", msg |-> m, n |-> n]
    ELSE pair(m, message, read_tag_unpack(input), n)

Message_merge_from(m, message, input) == merge_loop(m, message, input, 0)

-----
(* Bounds and inputs *)

\* values the caller stores and tag/value pairs merged, together, in one run
MaxVals == 2

\* elements of a repeated scalar field in one payload of SpecPacked
MaxElems == 2

\* The sequences over S of length lo..hi
RECURSIVE SeqsOf(_, _)
SeqsOf(S, n) ==
    IF n = 0 THEN {<<>>}
    ELSE {Append(s, x) : s \in SeqsOf(S, n - 1), x \in S}

SeqsUpTo(S, lo, hi) == UNION {SeqsOf(S, n) : n \in lo..hi}

\* A tag/value pair of a payload: the field number, the wire type, the bytes on
\* the wire (tag included) and, for a nested payload or a packed run, its parts.
Pair(number, wire, body, sub) ==
    [number |-> number, wire |-> wire, bytes |-> Tag(number, wire) \o body, sub |-> sub]

Delimited(payload) == VarintU(Len(payload)) \o payload

\* a part of a nested payload: child field `number` set to the int32 n
Part(number, n) ==
    [number |-> number, n |-> n, raw |-> Tag(number, "WireTypeVarint") \o Varint64(n)]

\* an element of a repeated scalar field: its bytes without tag
Elem(raw) == [number |-> 0, n |-> 0, raw |-> raw]

PartBytes(sub) == Flatten([i \in 1..Len(sub) |-> sub[i].raw])

Nested(number, sub) == Pair(number, "WireTypeLengthDelimited", Delimited(PartBytes(sub)), sub)

\* a nested payload whose only pair gives child field 1 (int32) the fixed32 wire type
BadNested(number) ==
    Pair(number, "WireTypeLengthDelimited",
         Delimited(Tag(1, "WireTypeFixed32") \o LittleEndian(5, 4)), <<>>)

Subs == {<<>>, <<Part(1, 7)>>, <<Part(2, 8)>>, <<Part(1, 9), Part(2, 0)>>}

Pairs ==
    {Pair(1, "WireTypeVarint", Varint64(5), <<>>),
     Pair(1, "WireTypeLengthDelimited", Delimited(Varint64(6)), <<>>),
     Pair(1, "WireTypeFixed32", LittleEndian(5, 4), <<>>),
     Pair(1, "WireTypeFixed64", LittleEndian(5, 8), <<>>),
     Pair(2, "WireTypeLengthDelimited", Delimited(<<97>>), <<>>),
     BadNested(3),
     Nested(4, <<Part(1, 7)>>),
     Pair(8, "WireTypeVarint", Varint64(1), <<>>),
     Pair(9, "WireTypeVarint", Varint64(1), <<>>),
     Pair(10, "WireTypeLengthDelimited", Delimited(<<>>), <<>>),
     Pair(14, "WireTypeVarint", Varint64(3), <<>>),
     Pair(15, "WireTypeLengthDelimited", Delimited(<<9>>), <<>>)}
    \cup {Nested(3, sub) : sub \in Subs}

PayloadBytes(es) == Flatten([i \in 1..Len(es) |-> es[i].bytes])

ChildWith(one, many) ==
    [Message_new("Child") EXCEPT !.fields[1] = Singular(one),
                                 !.fields[2] = Repeated(many)]

Children ==
    {ChildWith(<<>>, <<>>), ChildWith(<<I32(7)>>, <<>>),
     ChildWith(<<>>, <<I32(0)>>), ChildWith(<<I32(7)>>, <<I32(8)>>)}

\* The values the caller stores under a field number of Top
Values(number) ==
    CASE number = 1 -> {I32(0), I32(5), I32(-1)}
      [] number = 2 -> {String(<<>>), String(<<97>>)}
      [] number \in {3, 4} -> {Message(c) : c \in Children}
      [] number = 5 -> {Bool(FALSE), Bool(TRUE)}
      [] number = 6 -> {Bytes(<<>>), Bytes(<<1>>)}
      [] number = 7 -> {F32(<<0, 0, 0, 0>>), F32(<<0, 0, 128, 63>>)}
      [] OTHER -> {}

NoCopy == [res |-> "None", msg |-> Message_new("Top")]

-----------------------------------------------------------------------------
(* The state machine: a caller that owns one Message of schema Top *)

Init ==
    /\ msg = Message_new("Top")
    /\ op = "new"
    /\ entries = <<>>
    /\ before = Message_new("Top")
    /\ result = [res |-> "Ok", n |-> 0, vals |-> 0]
    /\ sizes = <<>>
    /\ out = <<>>
    /\ copy = NoCopy

\* The caller stores a value through the public `fields` map.
Populate(number, value) ==
    /\ entries = <<>>
    /\ result.vals < MaxVals
    /\ msg' = [msg EXCEPT !.fields[number] = put(@, value)]
    /\ op' = "populate"
    /\ result' = [result EXCEPT !.vals = @ + 1]
    /\ sizes' = <<>>
    /\ out' = <<>>
    /\ copy' = NoCopy
    /\ UNCHANGED <<entries, before>>

\* Message::merge_from on the payload made of the pairs es
MergeFrom(es) ==
    /\ result.vals + Len(es) <= MaxVals
    /\ \E r \in {Message_merge_from(msg, "Top", PayloadBytes(es))} :
        /\ msg' = r.msg
        /\ result' = [res |-> r.res, n |-> r.n, vals |-> result.vals + Len(es)]
    /\ before' = msg
    /\ entries' = es
    /\ op' = "merge"
    /\ sizes' = <<>>
    /\ out' = <<>>
    /\ copy' = NoCopy

\* Message::compute_size
ComputeSize ==
    /\ Len(sizes) < 2
    /\ op \in {"populate", "merge", "size"}
    /\ sizes' = Append(sizes, compute_size(msg))
    /\ msg' = set_size(msg)
    /\ op' = "size"
    /\ UNCHANGED <<entries, before, result, out, copy>>

\* Message::write_to / write_to_bytes
WriteToBytes ==
    /\ op \in {"populate", "merge", "size"}
    /\ out' = Emitted(msg)
    /\ msg' = set_size(msg)
    /\ op' = "write"
    /\ UNCHANGED <<entries, before, result, sizes, copy>>

OutBytes == Flatten([i \in 1..Len(out) |-> out[i].bytes])

\* Message::merge_from of the written bytes into a fresh Message::new
DecodeFresh ==
    /\ op = "write"
    /\ \E r \in {Message_merge_from(Message_new("Top"), "Top", OutBytes)} :
        copy' = [res |-> r.res, msg |-> r.msg]
    /\ op' = "decode"
    /\ UNCHANGED <<msg, entries, before, result, sizes, out>>

Next ==
    \/ \E number \in DOMAIN Top : \E value \in Values(number) : Populate(number, value)
    \/ \E es \in SeqsUpTo(Pairs, 1, MaxVals) : MergeFrom(es)
    \/ ComputeSize
    \/ WriteToBytes
    \/ DecodeFresh

Spec == Init /\ [][Next]_vars

-----------------------------------------------------------------------------
(* SpecPacked: payloads that carry the elements of one repeated scalar field of
   schema Packed, as packed runs, as unpacked pairs, or as a mixture *)

VarintElems == {Elem(<<0>>), Elem(<<3>>), Elem(<<172, 2>>)}

\* The encoded elements tried for a field type
ElemsOf(type) ==
    CASE type \in {"Fixed32", "Float"} ->
            {Elem(LittleEndian(0, 4)), Elem(LittleEndian(5, 4)), Elem(<<0, 0, 128, 63>>)}
      [] type = "SFixed32" ->
            {Elem(LittleEndian(0, 4)), Elem(LittleEndian(5, 4)), Elem(<<254, 255, 255, 255>>)}
      [] type = "Fixed64" ->
            {Elem(LittleEndian(0, 8)), Elem(LittleEndian(5, 8)), Elem(LittleEndian(300, 8))}
      [] type = "Double" ->
            {Elem(LittleEndian(0, 8)), Elem(LittleEndian(5, 8)),
             Elem(<<0, 0, 0, 0, 0, 0, 240, 63>>)}
      [] type = "SFixed64" ->
            {Elem(LittleEndian(0, 8)), Elem(LittleEndian(5, 8)),
             Elem(<<254, 255, 255, 255, 255, 255, 255, 255>>)}
      [] OTHER -> VarintElems

\* one pair per element
Unpacked(number, elems) ==
    [i \in 1..Len(elems) |->
        Pair(number, dispatch(Packed[number].type)[1], elems[i].raw, <<elems[i]>>)]

\* one length-delimited run
PackedRun(number, elems) ==
    Pair(number, "WireTypeLengthDelimited", Delimited(PartBytes(elems)), elems)

\* The pairs that carry elems when a new pair starts after each position in cuts;
\* a pair of one element is sent unpacked when its position is in `legacy`, as a
\* run of one otherwise.
RECURSIVE Grouped(_, _, _, _, _)
Grouped(number, elems, cuts, legacy, from) ==
    IF from > Len(elems) THEN <<>>
    ELSE LET to == IF \E c \in cuts : c >= from
                   THEN CHOOSE c \in cuts : c >= from /\ \A d \in cuts : d >= from => c <= d
                   ELSE Len(elems)
             group == SubSeq(elems, from, to)
         IN  (IF Len(group) = 1 /\ from \in legacy THEN Unpacked(number, group)
              ELSE <<PackedRun(number, group)>>)
             \o Grouped(number, elems, cuts, legacy, to + 1)

InitPacked ==
    /\ msg = Message_new("Packed")
    /\ op = "new"
    /\ entries = <<>>
    /\ before = Message_new("Packed")
    /\ result = [res |-> "Ok", n |-> 0, vals |-> 0]
    /\ sizes = <<>>
    /\ out = <<>>
    /\ copy = NoCopy

\* Message::merge_from of one such payload into a fresh Message::new
MergePacked(es) ==
    /\ op = "new"
    /\ \E r \in {Message_merge_from(msg, "Packed", PayloadBytes(es))} :
        /\ msg' = r.msg
        /\ result' = [res |-> r.res, n |-> r.n, vals |-> Len(es)]
    /\ before' = msg
    /\ entries' = es
    /\ op' = "merge"
    /\ UNCHANGED <<sizes, out, copy>>

NextPacked ==
    \E number \in DOMAIN Packed :
        \E elems \in SeqsUpTo(ElemsOf(Packed[number].type), 1, MaxElems) :
            \E cuts \in SUBSET (1..(Len(elems) - 1)) :
                \E legacy \in SUBSET (1..Len(elems)) :
                    MergePacked(Grouped(number, elems, cuts, legacy, 1))

SpecPacked == InitPacked /\ [][NextPacked]_vars

-----------------------------------------------------------------------------
(* Properties *)

\* The outcome of merge_from on the first i pairs of the last payload
AfterPairs(i) ==
    Message_merge_from(before, "Top", PayloadBytes(SubSeq(entries, 1, i)))

\* The chunk write_to emitted for a field number
Chunk(number) == (CHOOSE c \in {out[i] : i \in 1..Len(out)} : c.number = number).bytes

\* The tag/value pairs a byte sequence splits into; NoPair stands for bytes that
\* are no complete pair
NoPair == [number |-> 0, wire |-> "?", value |-> <<>>]

RECURSIVE WirePairs(_)
WirePairs(bs) ==
    IF bs = <<>> THEN <<>>
    ELSE LET t == read_tag_unpack(bs)
             r == read_unknown(t.wire_type, t.rest)
         IN  IF t.st # "Ok" THEN <<NoPair>>
             ELSE IF r.st # "Ok" THEN <<NoPair>>
             ELSE <<[number |-> t.number, wire |-> t.wire_type,
                     value |-> SubSeq(t.rest, 1, Len(t.rest) - Len(r.rest))]>>
                  \o WirePairs(r.rest)

\* A scalar that is the zero or empty default of its kind
IsDefault(v) ==
    CASE v.k \in {"Bool", "I32", "I64", "U32", "U64", "Enum"} -> v.n = 0
      [] v.k \in {"F32", "F64"} -> \A i \in 1..Len(v.b) : v.b[i] = 0
      [] v.k \in {"Bytes", "String"} -> v.b = <<>>
      [] OTHER -> FALSE

\* Field-for-field equality of a Message a and its decoded copy b, cached sizes
\* apart; a singular default scalar of a may have come back as absent.
RECURSIVE SameMessage(_, _)
SameValue(a, b) ==
    IF a.k = "Message" THEN b.k = "Message" /\ SameMessage(a.m[1], b.m[1]) ELSE a = b

SameField(fa, fb) ==
    /\ fa.rep = fb.rep
    /\ IF fa.rep
       THEN /\ Len(fa.vals) = Len(fb.vals)
            /\ \A i \in 1..Len(fa.vals) : SameValue(fa.vals[i], fb.vals[i])
       ELSE \/ fa.vals = <<>> /\ fb.vals = <<>>
            \/ fa.vals # <<>> /\ fb.vals # <<>> /\ SameValue(fa.vals[1], fb.vals[1])
            \/ fa.vals # <<>> /\ fb.vals = <<>> /\ IsDefault(fa.vals[1])

SameMessage(a, b) ==
    /\ DOMAIN a.fields = DOMAIN b.fields
    /\ \A number \in DOMAIN a.fields : SameField(a.fields[number], b.fields[number])
    /\ a.unknown = b.unknown

\* C1: a Message built by the caller from Message::new, written with
\* write_to_bytes and merged into a fresh Message::new, decodes without error to
\* a Message equal to it field for field, singular default scalars apart.
C1_RoundTrip ==
    (op = "decode" /\ entries = <<>>) =>
        (copy.res = "Ok" /\ SameMessage(msg, copy.msg))

\* C2: two compute_size calls with no mutation between them return the same
\* number, and the write_to that follows emits exactly that many bytes.
C2_SizeMatchesWrite ==
    (op = "write" /\ Len(sizes) = 2) =>
        (sizes[1] = sizes[2] /\ Len(OutBytes) = sizes[2])

\* The bytes that follow the tag in the pair of one repeated element
ElementValue(v) ==
    CASE v.k = "Bool" -> <<v.n>>
      [] v.k \in {"I32", "I64", "Enum"} -> Varint64(v.n)
      [] v.k \in {"U32", "U64"} -> VarintU(v.n)
      [] v.k \in {"F32", "F64"} -> v.b
      [] v.k \in {"Bytes", "String"} -> Delimited(v.b)

\* C6: for a repeated field of n scalar elements write_to emits exactly n
\* complete tag/value pairs, the i-th carrying the i-th element, also when the
\* element is the zero or empty default of its kind.
C6_NoOmission ==
    op = "write" =>
        \A number \in DOMAIN msg.fields :
            (msg.fields[number].rep /\ Top[number].type # "Message") =>
                LET vals == msg.fields[number].vals
                    pairs == WirePairs(Chunk(number))
                IN  /\ Len(pairs) = Len(vals)
                    /\ \A i \in 1..Len(vals) :
                        /\ pairs[i].number = number
                        /\ pairs[i].value = ElementValue(vals[i])

\* C8: for every nested Message that write_to emits, held by a singular field or
\* an element of a repeated one, the length prefix after the tag is the number
\* of bytes emitted for that child.
C8_LengthFraming ==
    op = "write" =>
        \A number \in DOMAIN msg.fields :
            Top[number].type = "Message" =>
                LET vals == msg.fields[number].vals IN
                Chunk(number) =
                    Flatten([i \in 1..Len(vals) |->
                        Tag(number, "WireTypeLengthDelimited")
                            \o VarintU(Len(write_to(vals[i].m[1])))
                            \o write_to(vals[i].m[1])])

\* The pair at position i reaches Field::merge_from: the pairs before it merged
BadWireOnField1(wires) ==
    op = "merge" =>
        \A i \in 1..Len(entries) :
            (/\ entries[i].number = 1
             /\ entries[i].wire \in wires
             /\ AfterPairs(i - 1).res = "Ok") =>
                /\ result.res = "BadWireType"
                /\ result.n = i - 1
                /\ msg = AfterPairs(i - 1).msg

\* C3 (as amended): with field 1 declared int32 and a pair that encodes field 1
\* with the fixed32 or the fixed64 wire type, merge_from returns a bad-wire-type
\* error, processes nothing after it and leaves the Message as the pairs before
\* left it.
C3_BadWireType == BadWireOnField1({"WireTypeFixed32", "WireTypeFixed64"})

\* C3 (as claimed): the same for a pair that encodes field 1 with the
\* length-delimited wire type.
C3_LengthDelimitedRejected == BadWireOnField1({"WireTypeLengthDelimited"})

C3_Witness ==
    /\ op = "merge"
    /\ Len(entries) = 2
    /\ entries[1].number = 2
    /\ entries[2].number = 1
    /\ entries[2].wire = "WireTypeFixed32"
    /\ result.res = "BadWireType"
    /\ msg.fields[2].vals # <<>>
    /\ msg.fields[1].vals = <<>>

\* The encodings of the processed pairs whose number the schema does not have
RECURSIVE UnknownOf(_)
UnknownOf(es) ==
    IF es = <<>> THEN <<>>
    ELSE (IF Head(es).number \in DOMAIN Top THEN <<>> ELSE Head(es).bytes)
         \o UnknownOf(Tail(es))

\* C4: write_to emits every known field first, in ascending field number
\* whatever the order of decoding, and then the unknown fields: the encodings of
\* all the unknown pairs merged, unchanged and in the order of encounter.
C4_UnknownLast ==
    op = "write" =>
        /\ Len(out) = Cardinality(DOMAIN msg.fields) + 1
        /\ {out[i].number : i \in 1..(Len(out) - 1)} = DOMAIN msg.fields
        /\ \A i, j \in 1..(Len(out) - 1) : i < j => out[i].number < out[j].number
        /\ out[Len(out)].number = 0
        /\ out[Len(out)].bytes =
              before.unknown \o UnknownOf(SubSeq(entries, 1, result.n))

C4_Witness ==
    /\ op = "write"
    /\ result.res = "Ok"
    /\ Len(entries) = 2
    /\ entries[1].number = 15
    /\ entries[2].number = 1
    /\ Chunk(1) # <<>>
    /\ Chunk(0) = entries[1].bytes

\* The elements a payload of SpecPacked carries, in order
AllElems == Flatten([i \in 1..Len(entries) |-> entries[i].sub])

\* C5: merging a payload that carries the elements of a repeated packable scalar
\* field as packed runs, as unpacked pairs or as a mixture gives the same ordered
\* sequence as merging the fully unpacked and the fully packed encoding of them.
C5_PackedUnpacked ==
    op = "merge" =>
        LET number == entries[1].number
            asUnpacked == Message_merge_from(before, "Packed",
                            PayloadBytes(Unpacked(number, AllElems)))
            asPacked == Message_merge_from(before, "Packed",
                            PackedRun(number, AllElems).bytes)
        IN  /\ result.res = "Ok"
            /\ asUnpacked.res = "Ok"
            /\ asPacked.res = "Ok"
            /\ Len(msg.fields[number].vals) = Len(AllElems)
            /\ msg.fields[number].vals = asUnpacked.msg.fields[number].vals
            /\ msg.fields[number].vals = asPacked.msg.fields[number].vals
            /\ msg = asUnpacked.msg

C5_Witness ==
    /\ op = "merge"
    /\ Len(entries) = 2
    /\ entries[1].number = 4
    /\ entries[1].wire = "WireTypeLengthDelimited"
    /\ entries[2].wire = "WireTypeVarint"
    /\ msg.fields[4].vals = <<I32(150), I32(-2)>>

ErrorValues == {"BadWireType", "UnknownEnum", "UnknownMessage", "WireError"}

\* C7: Field::merge_from on a field whose type is Group, UnresolvedEnum or
\* UnresolvedMessage returns an error value, which merge_from returns, and
\* stores nothing.
C7_UnsupportedIsError ==
    op = "merge" =>
        \A i \in 1..Len(entries) :
            (/\ entries[i].number \in DOMAIN Top
             /\ Top[entries[i].number].type \in {"Group", "UnresolvedEnum", "UnresolvedMessage"}
             /\ AfterPairs(i - 1).res = "Ok") =>
                /\ result.res \in ErrorValues
                /\ result.n = i - 1
                /\ msg = AfterPairs(i - 1).msg

\* Every value of b is still in a
RECURSIVE Contains(_, _)
Contains(a, b) ==
    /\ Len(a.unknown) >= Len(b.unknown)
    /\ SubSeq(a.unknown, 1, Len(b.unknown)) = b.unknown
    /\ \A number \in DOMAIN b.fields :
        LET fa == a.fields[number]
            fb == b.fields[number]
        IN  IF fb.rep
            THEN /\ Len(fa.vals) >= Len(fb.vals)
                 /\ SubSeq(fa.vals, 1, Len(fb.vals)) = fb.vals
            ELSE \/ fb.vals = <<>>
                 \/ /\ fa.vals # <<>>
                    /\ IF fb.vals[1].k = "Message"
                       THEN Contains(fa.vals[1].m[1], fb.vals[1].m[1])
                       ELSE fa.vals = fb.vals

\* C9: when merge_from returns an error, no pair after the faulting one was
\* processed and every value the pairs before it stored is still in the target;
\* a singular Message field that held a nested Message still holds one, with the
\* values it held.
C9_KeepsEarlier ==
    (op = "merge" /\ result.res # "Ok") =>
        /\ AfterPairs(result.n).res = "Ok"
        /\ Contains(msg, AfterPairs(result.n).msg)

\* The int32 values a nested payload gives child field `number`
RECURSIVE PartsFor(_, _)
PartsFor(sub, number) ==
    IF sub = <<>> THEN <<>>
    ELSE (IF Head(sub).number = number THEN <<I32(Head(sub).n)>> ELSE <<>>)
         \o PartsFor(Tail(sub), number)

\* The Child m updated by a nested payload: field 1 takes the payload's last
\* value if it has one, field 2 gets the payload's values appended.
Updated(m, sub) ==
    [m EXCEPT !.fields[1] =
                  IF PartsFor(sub, 1) = <<>> THEN @
                  ELSE Singular(<<PartsFor(sub, 1)[Len(PartsFor(sub, 1))]>>),
              !.fields[2] = Repeated(@.vals \o PartsFor(sub, 2))]

\* C10: a length-delimited pair merged into a singular Message field that holds
\* a Message M leaves M updated by the payload; only a field that holds none
\* gets a fresh Message::new updated by the payload, and a repeated field gets
\* such a fresh one appended.
C10_NestedAccumulates ==
    (op = "merge" /\ result.res = "Ok") =>
        LET e == entries[Len(entries)]
            pre == AfterPairs(Len(entries) - 1).msg
        IN  /\ e.number = 3 =>
                msg.fields[3] =
                    Singular(<<Message(Updated(
                        IF pre.fields[3].vals # <<>> THEN pre.fields[3].vals[1].m[1]
                        ELSE Message_new("Child"), e.sub))>>)
            /\ e.number = 4 =>
                msg.fields[4] =
                    Repeated(Append(pre.fields[4].vals,
                                    Message(Updated(Message_new("Child"), e.sub))))

C10_Witness ==
    /\ op = "merge"
    /\ result.res = "Ok"
    /\ Len(entries) = 1
    /\ entries[1].number = 3
    /\ before.fields[3].vals = <<Message(ChildWith(<<I32(7)>>, <<I32(8)>>))>>
    /\ msg.fields[3].vals = <<Message(ChildWith(<<I32(9)>>, <<I32(8), I32(0)>>))>>

====
